---- MODULE Spec2Model ----
(***************************************************************************)
(* The 'als-refactor-add-parameters' command executor of the Ada extension *)
(* (integration/vscode/ada/src/refactoring/alsAddParameterCommand.ts).     *)
(*                                                                         *)
(* alsAddParameterCommandExecutor runs in two synchronous pieces separated *)
(* by the await of window.showInputBox: the part before the await (Call)   *)
(* and the continuation (Resume).  While the executor is suspended the     *)
(* input box session runs: the user types, the box calls validateInput,    *)
(* which sends '$/alsCheckSyntax' requests, replies arrive, and the user   *)
(* accepts or cancels.  Several invocations may be suspended at once.      *)
(***************************************************************************)
EXTENDS Integers, Sequences, FiniteSets, TLC

\* ---------------------------------------------------------------- bounds
\* Syntax-check requests sent in one run, by all input box sessions.
MaxRequests == 3

\* Overlapping invocations of the executor.
Invocations == {1, 2}

\* Candidate texts the user can have in the box (the box starts at "").
Texts == {"", "X : Integer"}

\* ------------------------------------------------------- optional values
\* A field or result that may be undefined: <<>> is undefined, <<v>> is v.
Undefined == <<>>
Some(v) == <<v>>
OptTexts == {Undefined} \cup {Some(t) : t \in Texts}
OptBools == {Undefined} \cup {Some(b) : b \in BOOLEAN}

\* AddParameterCommandArgs as the server sends them: either field may be
\* missing if the server command attributes changed.
AddParameterCommandArgs ==
    [newParameter : OptTexts, requiresFullSpecification : OptBools]

\* --------------------------------------------- the executor's pure parts
RejectMessage ==
    "Invalid als-refactor-add-parameters command: missing \"requiresFullSpecification\" field"

\* Mutants of the argument check: only the field the message names is
\* checked; the fields are tested for falsiness instead of undefined.
MissingFieldFlagOnly(a) == a.requiresFullSpecification = Undefined
MissingFieldFalsy(a) ==
    \/ a.requiresFullSpecification = Undefined
    \/ a.newParameter = Undefined
    \/ a.newParameter = Some("")

MissingField(a) ==
    \/ a.requiresFullSpecification = Undefined
    \/ a.newParameter = Undefined

Prompt(requiresFullSpecification) ==
    IF requiresFullSpecification
    THEN "Insert a full parameter specification"
    ELSE "Insert one or more comma-separated parameter names or a full parameter specification"

\* Mutant: the name-or-full variant forgets the full specification rule.
RulesNamesOnly(requiresFullSpecification) ==
    IF requiresFullSpecification
    THEN <<"Param_Spec_Rule">>
    ELSE <<"Defining_Id_Rule", "Defining_Id_List_Rule">>

Rules(requiresFullSpecification) ==
    IF requiresFullSpecification
    THEN <<"Param_Spec_Rule">>
    ELSE <<"Defining_Id_Rule", "Defining_Id_List_Rule", "Param_Spec_Rule">>

Diagnostic(requiresFullSpecification) ==
    IF requiresFullSpecification
    THEN "This is not a syntactically valid full parameter specification"
    ELSE "This is not a syntactically valid parameter name or full parameter specification"

\* new AdaSyntaxCheckProvider(client, rules, diagnostic): the provider keeps
\* the rules and the diagnostic it was constructed with.
NewProvider(requiresFullSpecification) ==
    [rules |-> Rules(requiresFullSpecification),
     diagnostic |-> Diagnostic(requiresFullSpecification)]

NoProvider == [rules |-> <<>>, diagnostic |-> ""]

\* Mutant: the options carry no validateInput callback.
InputBoxOptionsNoValidation(prompt) ==
    [title |-> "Add Parameter(s)", prompt |-> prompt,
     ignoreFocusOut |-> TRUE, validateInput |-> FALSE]

\* validateInput |-> TRUE: the callback is the provider's
\* sendCheckSyntaxRequest.
InputBoxOptions(prompt) ==
    [title |-> "Add Parameter(s)", prompt |-> prompt,
     ignoreFocusOut |-> TRUE, validateInput |-> TRUE]

NoOptions ==
    [title |-> "", prompt |-> "", ignoreFocusOut |-> FALSE, validateInput |-> FALSE]

\* Mutant: a truthiness test, which takes the empty text for a cancellation.
ConfirmedTruthy(input) == input # Undefined /\ input # Some("")

\* input !== undefined
Confirmed(input) == input # Undefined

\* Mutants of the assignment: it is skipped; it is done before the test
\* for cancellation; it rebuilds the record from the input alone.
ArgsAfterPromptNoWrite(a, input) == a
ArgsAfterPromptAlways(a, input) == [a EXCEPT !.newParameter = input]
ArgsAfterPromptClobber(a, input) ==
    IF Confirmed(input)
    THEN [newParameter |-> input, requiresFullSpecification |-> Some(FALSE)]
    ELSE a

\* args.newParameter = input, on confirmation only.
ArgsAfterPrompt(a, input) ==
    IF Confirmed(input) THEN [a EXCEPT !.newParameter = input] ELSE a

\* How many assignments to the record the continuation makes.
WritesAfterPrompt(input) == IF Confirmed(input) THEN 1 ELSE 0

\* Promise.resolve(true) / Promise.resolve(false)
Resolution(input) == IF Confirmed(input) THEN "true" ELSE "false"

\* ------------------------------------------------------------------ state
VARIABLES
    args,       \* args[i]: the argument record of invocation i (caller-owned)
    args0,      \* args0[i]: the record as it was when invocation i was called
    pc,         \* pc[i]: "ready", "await" (suspended at showInputBox), "done"
    outcome,    \* outcome[i]: "pending", "true", "false", "rejected"
    rejection,  \* rejection[i]: the string the promise was rejected with
    writes,     \* writes[i]: assignments the handler made to args[i]
    adaSyntaxCheckProvider, \* the provider instances, by instance
    box,        \* box[i]: the input box session of invocation i
    boxResult,  \* boxResult[i]: the promise returned by showInputBox
    reqs,       \* reqs[i]: the '$/alsCheckSyntax' requests of invocation i
    verdicts    \* what the server has answered so far, per (rules, input)

vars == <<args, args0, pc, outcome, rejection, writes, adaSyntaxCheckProvider,
          box, boxResult, reqs, verdicts>>

ClosedBox ==
    [shown |-> 0, open |-> FALSE, options |-> NoOptions, value |-> "",
     validationValue |-> "", validation |-> 0, accepting |-> {}]

Unsettled == [settled |-> FALSE, input |-> Undefined]

Init ==
    /\ args \in [Invocations -> AddParameterCommandArgs]
    /\ args0 = args
    /\ pc = [i \in Invocations |-> "ready"]
    /\ outcome = [i \in Invocations |-> "pending"]
    /\ rejection = [i \in Invocations |-> ""]
    /\ writes = [i \in Invocations |-> 0]
    /\ adaSyntaxCheckProvider = [i \in Invocations |-> NoProvider]
    /\ box = [i \in Invocations |-> ClosedBox]
    /\ boxResult = [i \in Invocations |-> Unsettled]
    /\ reqs = [i \in Invocations |-> <<>>]
    /\ verdicts = {}

\* Mutant: the provider is kept in one module-level variable.
ProviderInstanceShared(i) == 1

\* const adaSyntaxCheckProvider = new ...: a fresh instance per invocation.
ProviderInstance(i) == i

\* Mutant: the rules and diagnostic are looked up from the record when a
\* request is sent.
BoundProviderLate(i) == NewProvider(args[i].requiresFullSpecification[1])

\* const { sendCheckSyntaxRequest } = adaSyntaxCheckProvider: the callback
\* handed to the box is the method of the instance built at setup.
BoundProvider(i) == adaSyntaxCheckProvider[ProviderInstance(i)]

\* -------------------------------------------------- the syntax check call
\* sendCheckSyntaxRequest(input) of provider p: one '$/alsCheckSyntax'
\* request with the provider's rules; the reply maps to undefined or to the
\* provider's diagnostic.
CheckSyntaxRequest(p, input) ==
    [input |-> input, rules |-> p.rules, diagnostic |-> p.diagnostic,
     replied |-> FALSE, error |-> Undefined]

\* validateInput(value) of the box with options o: the new request list
\* and the index of the validation promise (0: resolved, no error).
Validate(o, p, rs, value) ==
    IF o.validateInput
    THEN [reqs |-> Append(rs, CheckSyntaxRequest(p, value)), validation |-> Len(rs) + 1]
    ELSE [reqs |-> rs, validation |-> 0]

\* The requests sent so far, by all invocations.
RECURSIVE SentBy(_)
SentBy(S) ==
    IF S = {} THEN 0
    ELSE LET i == CHOOSE j \in S : TRUE IN Len(reqs[i]) + SentBy(S \ {i})

Sent == SentBy(Invocations)

CanValidate(o) == o.validateInput => Sent < MaxRequests

ValidationSettled(rs, k) == k = 0 \/ rs[k].replied
ValidationError(rs, k) == IF k = 0 THEN Undefined ELSE rs[k].error

\* --------------------------------------------------------------- executor
\* The executor up to its await: the argument check, the selection of
\* prompt, rules and diagnostic, the provider, and showInputBox, which
\* opens the box and validates its initial (empty) value.
Call(i) ==
    /\ pc[i] = "ready"
    /\ args0' = [args0 EXCEPT ![i] = args[i]]
    /\ IF MissingField(args[i])
       THEN /\ pc' = [pc EXCEPT ![i] = "done"]
            /\ outcome' = [outcome EXCEPT ![i] = "rejected"]
            /\ rejection' = [rejection EXCEPT ![i] = RejectMessage]
            /\ UNCHANGED <<adaSyntaxCheckProvider, box, reqs>>
       ELSE LET flag == args[i].requiresFullSpecification[1]
                p == NewProvider(flag)
                o == InputBoxOptions(Prompt(flag))
                v == Validate(o, p, reqs[i], "")
            IN /\ CanValidate(o)
               /\ pc' = [pc EXCEPT ![i] = "await"]
               /\ adaSyntaxCheckProvider' =
                      [adaSyntaxCheckProvider EXCEPT ![ProviderInstance(i)] = p]
               /\ box' = [box EXCEPT ![i] =
                      [ClosedBox EXCEPT !.shown = 1, !.open = TRUE, !.options = o,
                                        !.validation = v.validation]]
               /\ reqs' = [reqs EXCEPT ![i] = v.reqs]
               /\ UNCHANGED <<outcome, rejection>>
    /\ UNCHANGED <<args, writes, boxResult, verdicts>>

\* The continuation after the await.
Resume(i) ==
    /\ pc[i] = "await"
    /\ boxResult[i].settled
    /\ LET input == boxResult[i].input
       IN /\ args' = [args EXCEPT ![i] = ArgsAfterPrompt(args[i], input)]
          /\ writes' = [writes EXCEPT ![i] = @ + WritesAfterPrompt(input)]
          /\ outcome' = [outcome EXCEPT ![i] = Resolution(input)]
    /\ pc' = [pc EXCEPT ![i] = "done"]
    /\ UNCHANGED <<args0, rejection, adaSyntaxCheckProvider, box, boxResult,
                   reqs, verdicts>>

\* -------------------------------------------------------------- input box
\* resolve(value); input.hide()
Resolved(value) == [settled |-> TRUE, input |-> Some(value)]

\* The user edits the text.
Type(i, t) ==
    /\ box[i].open
    /\ t # box[i].value
    /\ box' = [box EXCEPT ![i].value = t]
    /\ UNCHANGED <<args, args0, pc, outcome, rejection, writes,
                   adaSyntaxCheckProvider, boxResult, reqs, verdicts>>

\* The (debounced) change event: the value is validated unless it is the
\* one being validated.
ValueChanged(i) ==
    /\ box[i].open
    /\ box[i].value # box[i].validationValue
    /\ CanValidate(box[i].options)
    /\ LET b == box[i]
           v == Validate(b.options, BoundProvider(i), reqs[i], b.value)
       IN /\ reqs' = [reqs EXCEPT ![i] = v.reqs]
          /\ box' = [box EXCEPT ![i] =
                 [b EXCEPT !.validationValue = b.value,
                           !.validation = v.validation]]
    /\ UNCHANGED <<args, args0, pc, outcome, rejection, writes,
                   adaSyntaxCheckProvider, boxResult, verdicts>>

\* The user presses Enter: the value is validated unless it is the one
\* being validated; the box resolves with it once that validation reports
\* no error, and stays open otherwise.
Accept(i) ==
    /\ box[i].open
    /\ LET b == box[i]
           fresh == b.value # b.validationValue
           v == IF fresh
                THEN Validate(b.options, BoundProvider(i), reqs[i], b.value)
                ELSE [reqs |-> reqs[i], validation |-> b.validation]
           settled == ValidationSettled(v.reqs, v.validation)
           error == ValidationError(v.reqs, v.validation)
       IN /\ fresh => CanValidate(b.options)
          /\ reqs' = [reqs EXCEPT ![i] = v.reqs]
          /\ IF settled /\ error = Undefined
             THEN /\ boxResult' = [boxResult EXCEPT ![i] = Resolved(b.value)]
                  /\ box' = [box EXCEPT ![i] =
                         [b EXCEPT !.open = FALSE,
                                   !.validationValue = b.value,
                                   !.validation = v.validation,
                                   !.accepting = {}]]
             ELSE /\ UNCHANGED boxResult
                  /\ box' = [box EXCEPT ![i] =
                         [b EXCEPT !.validationValue = b.value,
                                   !.validation = v.validation,
                                   !.accepting = IF settled THEN @
                                                 ELSE @ \cup {v.validation}]]
    /\ UNCHANGED <<args, args0, pc, outcome, rejection, writes,
                   adaSyntaxCheckProvider, verdicts>>

\* The user dismisses the box: onDidHide resolves with undefined.
Cancel(i) ==
    /\ box[i].open
    /\ box' = [box EXCEPT ![i].open = FALSE, ![i].accepting = {}]
    /\ boxResult' = [boxResult EXCEPT ![i] = [settled |-> TRUE, input |-> Undefined]]
    /\ UNCHANGED <<args, args0, pc, outcome, rejection, writes,
                   adaSyntaxCheckProvider, reqs, verdicts>>

\* ------------------------------------------------------------ the server
Known(rules, input) == {v \in verdicts : v.rules = rules /\ v.input = input}

\* The reply to request k of invocation i arrives.  The server's answer
\* for a rule set and a text is a function of the two; the callbacks the
\* box attached to the validation promise then run.
Reply(i, k, ok) ==
    /\ k \in 1..Len(reqs[i])
    /\ ~reqs[i][k].replied
    /\ LET r == reqs[i][k]
           error == IF ok THEN Undefined ELSE Some(r.diagnostic)
           b == box[i]
       IN /\ \A v \in Known(r.rules, r.input) : v.ok = ok
          /\ verdicts' = verdicts \cup {[rules |-> r.rules, input |-> r.input, ok |-> ok]}
          /\ reqs' = [reqs EXCEPT ![i][k] = [r EXCEPT !.replied = TRUE, !.error = error]]
          /\ IF k \in b.accepting /\ ok
             THEN /\ boxResult' = [boxResult EXCEPT ![i] = Resolved(r.input)]
                  /\ box' = [box EXCEPT ![i] = [b EXCEPT !.open = FALSE, !.accepting = {}]]
             ELSE /\ UNCHANGED boxResult
                  /\ box' = [box EXCEPT ![i].accepting = @ \ {k}]
    /\ UNCHANGED <<args, args0, pc, outcome, rejection, writes,
                   adaSyntaxCheckProvider>>

\* ------------------------------------------------------------ the caller
\* The caller, which owns the record, changes the flag while the handler
\* is suspended at the prompt.
CallerChangesFlag(i) ==
    /\ pc[i] = "await"
    /\ args' = [args EXCEPT ![i].requiresFullSpecification =
                   Some(~args[i].requiresFullSpecification[1])]
    /\ UNCHANGED <<args0, pc, outcome, rejection, writes, adaSyntaxCheckProvider,
                   box, boxResult, reqs, verdicts>>

\* --------------------------------------------------------- specifications
Next ==
    \E i \in Invocations :
        \/ Call(i)
        \/ Resume(i)
        \/ \E t \in Texts : Type(i, t)
        \/ ValueChanged(i)
        \/ Accept(i)
        \/ Cancel(i)
        \/ \E k \in 1..MaxRequests, ok \in BOOLEAN : Reply(i, k, ok)

Spec == Init /\ [][Next]_vars

\* The same program with a caller that mutates the record meanwhile.
NextCallerMutates ==
    \/ Next
    \/ \E i \in Invocations : CallerChangesFlag(i)

SpecCallerMutates == Init /\ [][NextCallerMutates]_vars

\* ------------------------------------------------------------- properties
Called(i) == pc[i] # "ready"
Done(i) == pc[i] = "done"
AbsentField(a) == a.newParameter = Undefined \/ a.requiresFullSpecification = Undefined
Range(q) == {q[k] : k \in 1..Len(q)}
Failed(i) == {k \in 1..Len(reqs[i]) : reqs[i][k].replied /\ reqs[i][k].error # Undefined}

\* C1: an invocation with newParameter or requiresFullSpecification absent
\* is rejected with the fixed missing-field string, and in it no prompt is
\* shown, no syntax-check request is sent and the record is left as it was.
C1_MalformedRejected ==
    \A i \in Invocations :
        (Called(i) /\ AbsentField(args0[i])) =>
            /\ Done(i)
            /\ outcome[i] = "rejected"
            /\ rejection[i] = RejectMessage
            /\ box[i].shown = 0 /\ ~box[i].open /\ ~boxResult[i].settled
            /\ reqs[i] = <<>>
            /\ args[i] = args0[i]

C1_Witness ==
    \E i \in Invocations :
        /\ outcome[i] = "rejected"
        /\ args0[i].newParameter = Undefined
        /\ args0[i].requiresFullSpecification # Undefined

\* C2: when the user confirms a text T, the operation resolves to true and
\* on return newParameter is exactly T and requiresFullSpecification has
\* the value it had at invocation.
C2_ConfirmWritesText ==
    \A i \in Invocations : \A T \in Texts :
        (Done(i) /\ boxResult[i].settled /\ boxResult[i].input = Some(T)) =>
            /\ outcome[i] = "true"
            /\ args[i].newParameter = Some(T)
            /\ args[i].requiresFullSpecification = args0[i].requiresFullSpecification

C2_Witness ==
    \E i \in Invocations :
        /\ outcome[i] = "true"
        /\ args0[i].newParameter = Some("")
        /\ boxResult[i].input = Some("X : Integer")
        /\ args[i].newParameter = Some("X : Integer")

\* C3: when the user cancels, the operation resolves to false and both
\* fields of the record are as they were at invocation, however many
\* candidate texts were validated before.
C3_CancelLeavesRecord ==
    \A i \in Invocations :
        (Done(i) /\ boxResult[i].settled /\ boxResult[i].input = Undefined) =>
            /\ outcome[i] = "false"
            /\ args[i] = args0[i]

C3_Witness ==
    \E i \in Invocations :
        /\ outcome[i] = "false"
        /\ boxResult[i].input = Undefined
        /\ Len(reqs[i]) >= 2
        /\ \A k \in 1..Len(reqs[i]) : reqs[i][k].replied

\* C4: prompt, rule set and diagnostic are selected by the flag alone: the
\* full-specification variant when it is true, the names-or-full variant
\* with its three rules when it is false, never mixed.
C4_VariantByFlag ==
    \A i \in Invocations :
        (Called(i) /\ ~AbsentField(args0[i])) =>
            LET p == adaSyntaxCheckProvider[i]
                o == box[i].options
            IN IF args0[i].requiresFullSpecification = Some(TRUE)
               THEN /\ o.prompt = "Insert a full parameter specification"
                    /\ Len(p.rules) = 1
                    /\ Range(p.rules) = {"Param_Spec_Rule"}
                    /\ p.diagnostic =
                           "This is not a syntactically valid full parameter specification"
               ELSE /\ o.prompt =
                           "Insert one or more comma-separated parameter names or a full parameter specification"
                    /\ Len(p.rules) = 3
                    /\ Range(p.rules) =
                           {"Defining_Id_Rule", "Defining_Id_List_Rule", "Param_Spec_Rule"}
                    /\ p.diagnostic =
                           "This is not a syntactically valid parameter name or full parameter specification"

C4_Witness ==
    \E i, j \in Invocations :
        /\ pc[i] = "await" /\ pc[j] = "await"
        /\ args0[i].requiresFullSpecification = Some(TRUE)
        /\ args0[j].requiresFullSpecification = Some(FALSE)
        /\ args0[i].newParameter # args0[j].newParameter
        /\ Len(adaSyntaxCheckProvider[j].rules) = 3

\* C5: a text written into newParameter is one the syntax check, asked by
\* this invocation with its rule set, answered with no error; a text the
\* check answers with an error is never written.
C5_OnlyValidatedTextWritten ==
    \A i \in Invocations :
        writes[i] > 0 =>
            LET T == args[i].newParameter[1]
                rules == Rules(args0[i].requiresFullSpecification[1])
            IN /\ \E k \in 1..Len(reqs[i]) :
                      /\ reqs[i][k].input = T
                      /\ reqs[i][k].rules = rules
                      /\ reqs[i][k].replied
                      /\ reqs[i][k].error = Undefined
               /\ [rules |-> rules, input |-> T, ok |-> FALSE] \notin verdicts

\* The text was accepted while its validation was pending, the user typed
\* on, and an earlier text had failed.
C5_Witness ==
    \E i \in Invocations :
        /\ writes[i] = 1
        /\ args[i].newParameter = Some("X : Integer")
        /\ Len(reqs[i]) = 3
        /\ reqs[i][1].error # Undefined
        /\ reqs[i][2].input = "X : Integer"
        /\ reqs[i][3].input = ""

\* C6: an invocation ends resolved true, resolved false or rejected with
\* the string; it is rejected exactly when a required field was absent at
\* invocation, whatever validations failed while typing.
C6_Outcomes ==
    \A i \in Invocations :
        /\ Done(i) <=> outcome[i] \in {"true", "false", "rejected"}
        /\ ~Done(i) <=> outcome[i] = "pending"
        /\ outcome[i] = "rejected" <=> (Done(i) /\ AbsentField(args0[i]))
        /\ rejection[i] = IF outcome[i] = "rejected" THEN RejectMessage ELSE ""

C6_Witness ==
    \E i \in Invocations :
        /\ outcome[i] \in {"true", "false"}
        /\ args0[i].newParameter = Some("")
        /\ Cardinality(Failed(i)) >= 2

C8_NoInterference ==
    \A i \in Invocations :
        /\ \A k \in 1..Len(reqs[i]) :
               /\ ~AbsentField(args0[i])
               /\ reqs[i][k].rules = Rules(args0[i].requiresFullSpecification[1])
               /\ reqs[i][k].diagnostic = Diagnostic(args0[i].requiresFullSpecification[1])
               /\ reqs[i][k].error \in
                      {Undefined, Some(Diagnostic(args0[i].requiresFullSpecification[1]))}
        /\ (Done(i) /\ ~AbsentField(args0[i])) =>
               /\ boxResult[i].settled
               /\ outcome[i] = IF boxResult[i].input = Undefined THEN "false" ELSE "true"
               /\ args[i] = IF boxResult[i].input = Undefined THEN args0[i]
                            ELSE [args0[i] EXCEPT !.newParameter = boxResult[i].input]

C8_Witness ==
    \E i, j \in Invocations :
        /\ i # j
        /\ box[i].open /\ box[j].open
        /\ args0[i].requiresFullSpecification # args0[j].requiresFullSpecification
        /\ Len(reqs[i]) >= 2 /\ Len(reqs[j]) >= 1
        /\ reqs[i][2].rules # reqs[j][1].rules

\* C9: every request of an invocation carries the rule set and diagnostic
\* selected from the flag as it was when the handler started, also when
\* the caller changes the flag while the handler waits at the prompt.
C9_BoundAtSetup ==
    \A i \in Invocations : \A k \in 1..Len(reqs[i]) :
        /\ args0[i].requiresFullSpecification # Undefined
        /\ reqs[i][k].rules = Rules(args0[i].requiresFullSpecification[1])
        /\ reqs[i][k].diagnostic = Diagnostic(args0[i].requiresFullSpecification[1])

C9_Witness ==
    \E i \in Invocations :
        /\ Called(i)
        /\ args[i].requiresFullSpecification # args0[i].requiresFullSpecification
        /\ Len(reqs[i]) >= 2
        /\ reqs[i][2].rules = Rules(args0[i].requiresFullSpecification[1])
        /\ reqs[i][2].rules # Rules(args[i].requiresFullSpecification[1])

\* C10: absent differs from empty and from false: a record with an empty
\* newParameter or a false flag reaches the prompt, a confirmed empty text
\* gives true and newParameter "", and only an undefined prompt result
\* gives false.
C10_AbsentIsNotEmpty ==
    \A i \in Invocations :
        /\ (Called(i) /\ ~AbsentField(args0[i])) =>
               (outcome[i] # "rejected" /\ box[i].shown = 1)
        /\ (Done(i) /\ boxResult[i].settled /\ boxResult[i].input = Some("")) =>
               (outcome[i] = "true" /\ args[i].newParameter = Some(""))
        /\ outcome[i] = "false" => (boxResult[i].settled /\ boxResult[i].input = Undefined)

C10_Witness ==
    \E i \in Invocations :
        /\ args0[i] = [newParameter |-> Some(""), requiresFullSpecification |-> Some(FALSE)]
        /\ boxResult[i].input = Some("")
        /\ outcome[i] = "true"
        /\ args[i].newParameter = Some("")

====
